---- MODULE Spec2Model ----
(***************************************************************************)
(* Model of the uploader of everFinance/js-client (src/common/upload.ts):  *)
(*   - Uploader.chunkedTransactionUploader, the resumable chunked upload   *)
(*     of one item (presence query, windowed chunk POSTs, finalize);       *)
(*   - Uploader.concurrentUploader, the pooled upload of many items with   *)
(*     per-item retry and the insufficient-funds abort.                    *)
(* The two operations are checked under ChunkSpec and BatchSpec; each      *)
(* leaves the other's variables untouched.                                 *)
(***************************************************************************)
EXTENDS Integers, Sequences, FiniteSets, TLC

\* ------------------------------------------------------------------ bounds
\* Largest number of chunks an item of the model splits into.
MaxChunks == 2
\* Largest batchSize argument the model tries.
MaxBatch == 2

\* --------------------------------------------------------- program constants
\* chunkSize < 1_000_000 is rejected (upload.ts:175).
MinChunkSize == 1000000
\* chunkSize > 190_000_000 is rejected (upload.ts:175).
MaxChunkSize == 190000000
\* async-retry's default number of retries, which the retry of promiseFactory
\* runs with: its options object stands outside the call (upload.ts:183-192).
DefaultRetries == 10
\* retries: 3 of the retry in concurrentUploader (upload.ts:117).
ItemRetries == 3
\* The pool width used when concurrency < 1 (upload.ts:90).
PoolDefault == 5
\* Items longer than this are uploaded in chunks (upload.ts:59).
ChunkThreshold == 50000000
\* Default chunkSize of chunkedTransactionUploader (upload.ts:173).
DefaultChunkSize == 25000000
\* Default batchSize of chunkedTransactionUploader (upload.ts:173).
DefaultBatchSize == 5
\* Largest number of items handed to concurrentUploader.
MaxItems == 2
\* Largest concurrency argument the model tries.
MaxConcurrency == 2

VARIABLES
    \* ---- chunkedTransactionUploader
    size,          \* argument: byte length of the item
    chunkSize,     \* argument
    batchSize,     \* argument
    pc,            \* position of the coordinator
    present,       \* offsets the presence query reported
    missing,       \* offsets to upload
    cnk,           \* number of chunks the for-await loop has consumed
    offset,        \* the loop's running byte offset
    processing,    \* the current window: sequence of chunk indexes
    task,          \* chunk index -> state of the promise promiseFactory made
    attempts,      \* chunk index -> POSTs issued for that chunk
    status,        \* chunk index -> status of the response that resolved it
    getres,        \* status of the presence response, 0 before
    finishUpload,  \* status of the finalize response, 0 before
    outcome,       \* how the call settled, "pending" before
    \* ---- instrumentation of the chunked upload
    getCalls,      \* presence queries issued
    finalizeCalls, \* finalize POSTs issued
    seen402,       \* a chunk POST was answered 402
    postAfter402,  \* a chunk POST for another offset was issued after that
    throws,        \* chunk index -> POSTs of that chunk that threw
    \* ---- concurrentUploader
    data,          \* argument: number of items, indexed 0..data-1
    concurrency,   \* argument
    resultProcessor, \* argument: TRUE when the callback is supplied
    logFunction,   \* argument: TRUE when the callback is supplied
    errors,        \* the errors array
    results,       \* the pool's results array
    nextItem,      \* index of the next item the pool dispatches
    poolTask,      \* item -> state of its pool task (the retry promise)
    retryOp,       \* item -> state of its retry operation
    calls,         \* item -> invocations of processItem
    batchOutcome,  \* how concurrentUploader settled, "pending" before
    \* ---- instrumentation of the batch
    funds,         \* item -> a processItem call failed with insufficient funds
    failed,        \* item -> a processItem call threw
    uploaded,      \* item -> a processItem call returned
    logCalls,      \* invocations of logFunction
    \* ---- transactionUploader
    length,        \* byte length of the transaction's raw data
    forceUseChunking, \* the field set through useChunking
    txpc,          \* position of transactionUploader
    res,           \* status of the response the switch looks at, 0 before
    txOutcome,     \* how transactionUploader settled, "pending" before
    directPosts    \* instrumentation: POSTs to /tx issued

chunkVars == <<size, chunkSize, batchSize, pc, present, missing, cnk, offset,
               processing, task, attempts, status, finishUpload, outcome,
               getCalls, finalizeCalls, seen402, postAfter402, getres, throws>>

batchVars == <<data, concurrency, resultProcessor, logFunction, errors, results,
               nextItem, poolTask, retryOp, calls, batchOutcome, funds, failed,
               uploaded, logCalls>>

txVars == <<length, forceUseChunking, txpc, res, txOutcome, directPosts>>

vars == <<chunkVars, batchVars, txVars>>

\* ------------------------------------------------------------------ inputs
\* One chunk size below the accepted range, one inside it, one above it.
ChunkSizeInputs == {MinChunkSize \div 2, MinChunkSize, MaxChunkSize + 1}
\* batchSize 0 is rejected; 1..MaxBatch are accepted.
BatchSizeInputs == 0..MaxBatch
\* Sizes with a remainder (k*c + 1) and exact multiples of the chunk size.
SizeInputs(c) == {k * c + r : k \in 0..(MaxChunks - 1), r \in {1, c}}

\* Statuses api.get / api.post return as responses (upload.ts:69-79, 196, 257).
GetStatuses == {200, 201, 500}
ChunkStatuses == {200, 402, 500}
FinalizeStatuses == {200, 201, 402, 500}

\* ------------------------------------------------------------------ helpers
\* The chunker with flushTail: full chunks, then the shorter tail if any.
ChunkLengths(s, c) ==
    [i \in 1..((s + c - 1) \div c) |->
        IF i * c <= s THEN c ELSE s - (i - 1) * c]

\* Chunk indexes: enough for the items of the chunked upload's own inputs and
\* for the smallest item transactionUploader hands over by its length.
ChunkIds ==
    LET n == Len(ChunkLengths(ChunkThreshold + 1, DefaultChunkSize))
    IN 0..((IF MaxChunks > n THEN MaxChunks ELSE n) - 1)

\* Utils.checkAndThrow(res, context, exceptions): throws unless the status is
\* 200 or one of the exceptions.
checkAndThrow(st, exceptions) == st # 200 /\ st \notin exceptions

\* A missing list that ignores what the server already holds.
Missing_IgnoresPresent(s, c, pres) ==
    {i * c : i \in 0..((s - (s % c)) \div c)}

\* upload.ts:203-212: the offsets 0, c, 2c, ... up to chunks*c, minus present.
Missing(s, c, pres) ==
    LET remainder == s % c
        chunks == (s - remainder) \div c
    IN {i * c : i \in 0..chunks} \ pres

\* Offsets the presence query can report for the item.
PresenceInputs(s, c) == SUBSET {i * c : i \in 0..((s - (s % c)) \div c)}

Range(f) == {f[i] : i \in DOMAIN f}

\* A promise of promiseFactory is settled once r(...) was called.
Settled(k) == task[k] = "resolved"

\* Promise.all(processing) has resolved.
AllSettled == \A k \in Range(processing) : Settled(k)

\* -------------------------------------------------------------------- Init
ChunkInit ==
    /\ chunkSize \in ChunkSizeInputs
    /\ batchSize \in BatchSizeInputs
    /\ size \in SizeInputs(chunkSize)
    /\ pc = "call"
    /\ present = {}
    /\ missing = {}
    /\ cnk = 0
    /\ offset = 0
    /\ processing = <<>>
    /\ task = [k \in ChunkIds |-> "none"]
    /\ attempts = [k \in ChunkIds |-> 0]
    /\ status = [k \in ChunkIds |-> 0]
    /\ finishUpload = 0
    /\ outcome = "pending"
    /\ getCalls = 0
    /\ finalizeCalls = 0
    /\ seen402 = FALSE
    /\ postAfter402 = FALSE
    /\ getres = 0
    /\ throws = [k \in ChunkIds |-> 0]

\* The chunked uploader when no chunked upload is modelled.
ChunkQuiet ==
    /\ chunkSize = MinChunkSize
    /\ batchSize = 1
    /\ size = 1
    /\ pc = "off"
    /\ present = {}
    /\ missing = {}
    /\ cnk = 0
    /\ offset = 0
    /\ processing = <<>>
    /\ task = [k \in ChunkIds |-> "none"]
    /\ attempts = [k \in ChunkIds |-> 0]
    /\ status = [k \in ChunkIds |-> 0]
    /\ finishUpload = 0
    /\ outcome = "pending"
    /\ getCalls = 0
    /\ finalizeCalls = 0
    /\ seen402 = FALSE
    /\ postAfter402 = FALSE
    /\ getres = 0
    /\ throws = [k \in ChunkIds |-> 0]

\* ----------------------------------------------------------------- actions
\* Argument checks that forget the batch size.
InvalidConfig_NoBatchCheck ==
    chunkSize < MinChunkSize \/ chunkSize > MaxChunkSize

\* upload.ts:175-180: the two argument checks.
InvalidConfig ==
    chunkSize < MinChunkSize \/ chunkSize > MaxChunkSize \/ batchSize < 1

\* upload.ts:173-195: the argument checks, then the presence query is sent.
Call ==
    /\ pc = "call"
    /\ IF InvalidConfig
         THEN /\ pc' = "done"
              /\ outcome' = "invalidConfig"
              /\ UNCHANGED getCalls
         ELSE /\ pc' = "get"
              /\ getCalls' = getCalls + 1
              /\ UNCHANGED outcome
    /\ UNCHANGED <<size, chunkSize, batchSize, present, missing, cnk, offset,
                   processing, task, attempts, status, finishUpload,
                   finalizeCalls, seen402, postAfter402>>
    /\ UNCHANGED <<getres, throws>>
    /\ UNCHANGED <<batchVars, txVars>>

\* A test that never takes the presence response for "already complete".
AlreadyComplete_Never(st) == FALSE

\* upload.ts:196: getres.status == 201.
AlreadyComplete(st) == st = 201

\* upload.ts:195-216: the presence query answers with a status.
GetResponse ==
    /\ pc = "get"
    /\ \E st \in GetStatuses, pres \in PresenceInputs(size, chunkSize) :
         /\ getres' = st
         /\ IF AlreadyComplete(st)
              THEN /\ pc' = "done"
                   /\ outcome' = "alreadyComplete"
                   /\ UNCHANGED <<present, missing>>
            ELSE IF checkAndThrow(st, {})
              THEN /\ pc' = "done"
                   /\ outcome' = "httpError"
                   /\ UNCHANGED <<present, missing>>
              ELSE /\ pc' = "loop"
                   /\ present' = pres
                   /\ missing' = Missing(size, chunkSize, pres)
                   /\ UNCHANGED outcome
    /\ UNCHANGED <<size, chunkSize, batchSize, cnk, offset, processing, task,
                   attempts, status, finishUpload, getCalls, finalizeCalls,
                   seen402, postAfter402>>
    /\ UNCHANGED <<throws>>
    /\ UNCHANGED <<batchVars, txVars>>

\* A presence query that is sent again after a transport error.
GetThrows_Retried ==
    /\ pc = "get"
    /\ getCalls < ItemRetries
    /\ getCalls' = getCalls + 1
    /\ UNCHANGED <<size, chunkSize, batchSize, pc, present, missing, cnk,
                   offset, processing, task, attempts, status, finishUpload,
                   outcome, finalizeCalls, seen402, postAfter402>>
    /\ UNCHANGED <<getres, throws>>
    /\ UNCHANGED <<batchVars, txVars>>

\* upload.ts:195: the presence query throws (a transport error); nothing
\* catches it, so the call rejects.
GetThrows ==
    /\ pc = "get"
    /\ pc' = "done"
    /\ outcome' = "networkError"
    /\ UNCHANGED <<size, chunkSize, batchSize, present, missing, cnk, offset,
                   processing, task, attempts, status, finishUpload, getCalls,
                   finalizeCalls, seen402, postAfter402>>
    /\ UNCHANGED <<getres, throws>>
    /\ UNCHANGED <<batchVars, txVars>>

\* A window test that lets one task too many in.
WindowFull_Late == Len(processing) = batchSize + 1

\* upload.ts:239: processing.length == batchSize.
WindowFull == Len(processing) = batchSize

\* upload.ts:239-242: the window is emptied once it is full and all of it has
\* settled; otherwise it is kept.
WindowAfterWait ==
    IF WindowFull THEN <<>> ELSE processing

\* upload.ts:233-250: one iteration of the for-await loop over the chunks.
\* With a full window the iteration waits at Promise.all(processing).
LoopIter ==
    /\ pc = "loop"
    /\ cnk < Len(ChunkLengths(size, chunkSize))
    /\ WindowFull => AllSettled
    /\ LET k == cnk
           len == ChunkLengths(size, chunkSize)[cnk + 1]
           win == WindowAfterWait
       IN /\ IF offset \in missing
               THEN \* promiseFactory(data, offset): retry runs the first
                    \* attempt at once, which sends the POST.
                    /\ processing' = Append(win, k)
                    /\ task' = [task EXCEPT ![k] = "posting"]
                    /\ attempts' = [attempts EXCEPT ![k] = 1]
                    /\ postAfter402' = (postAfter402 \/ seen402)
               ELSE /\ processing' = win
                    /\ UNCHANGED <<task, attempts, postAfter402>>
          /\ offset' = offset + len
          /\ cnk' = cnk + 1
    /\ UNCHANGED <<size, chunkSize, batchSize, pc, present, missing, status,
                   finishUpload, outcome, getCalls, finalizeCalls, seen402>>
    /\ UNCHANGED <<getres, throws>>
    /\ UNCHANGED <<batchVars, txVars>>

\* upload.ts:185-189: a chunk POST answers with a status, whatever it is;
\* .then(re => r({o, d: re})) resolves the chunk's promise with it.
ChunkResponse(k) ==
    /\ task[k] = "posting"
    /\ \E st \in ChunkStatuses :
         /\ status' = [status EXCEPT ![k] = st]
         /\ seen402' = (seen402 \/ st = 402)
    /\ task' = [task EXCEPT ![k] = "resolved"]
    /\ UNCHANGED <<size, chunkSize, batchSize, pc, present, missing, cnk,
                   offset, processing, attempts, finishUpload, outcome,
                   getCalls, finalizeCalls, postAfter402>>
    /\ UNCHANGED <<getres, throws>>
    /\ UNCHANGED <<batchVars, txVars>>

\* A retry that gives up after one retry.
ChunkRetries_One == DefaultRetries - 9

\* The number of retries the retry of promiseFactory runs with.
ChunkRetries == DefaultRetries

\* upload.ts:183-191: a chunk POST throws; retry schedules another attempt
\* while retries are left, else its promise rejects, which nothing handles:
\* r is never called and the chunk's promise stays pending.
ChunkThrows(k) ==
    /\ task[k] = "posting"
    /\ task' = [task EXCEPT ![k] =
                  IF attempts[k] <= ChunkRetries THEN "backoff" ELSE "exhausted"]
    /\ throws' = [throws EXCEPT ![k] = @ + 1]
    /\ UNCHANGED <<size, chunkSize, batchSize, pc, present, missing, cnk,
                   offset, processing, attempts, status, finishUpload, outcome,
                   getCalls, finalizeCalls, seen402, postAfter402>>
    /\ UNCHANGED <<getres>>
    /\ UNCHANGED <<batchVars, txVars>>

\* upload.ts:183-191: the backoff timer of retry fires and the POST is sent
\* again.
ChunkRetry(k) ==
    /\ task[k] = "backoff"
    /\ task' = [task EXCEPT ![k] = "posting"]
    /\ attempts' = [attempts EXCEPT ![k] = attempts[k] + 1]
    /\ postAfter402' = (postAfter402 \/ (seen402 /\ status[k] # 402))
    /\ UNCHANGED <<size, chunkSize, batchSize, pc, present, missing, cnk,
                   offset, processing, status, finishUpload, outcome, getCalls,
                   finalizeCalls, seen402>>
    /\ UNCHANGED <<getres, throws>>
    /\ UNCHANGED <<batchVars, txVars>>

\* upload.ts:252-256: after the loop, Promise.all(processing) and then the
\* finalize POST is sent.
Finalize ==
    /\ pc = "loop"
    /\ cnk = Len(ChunkLengths(size, chunkSize))
    /\ AllSettled
    /\ pc' = "finalize"
    /\ finalizeCalls' = finalizeCalls + 1
    /\ UNCHANGED <<size, chunkSize, batchSize, present, missing, cnk, offset,
                   processing, task, attempts, status, finishUpload, outcome,
                   getCalls, seen402, postAfter402>>
    /\ UNCHANGED <<getres, throws>>
    /\ UNCHANGED <<batchVars, txVars>>

\* upload.ts:253-262: the finalize POST answers with a status.
FinalizeResponse ==
    /\ pc = "finalize"
    /\ \E st \in FinalizeStatuses :
         /\ finishUpload' = st
         /\ outcome' = IF st = 402 THEN "insufficientFunds"
                       ELSE IF checkAndThrow(st, {201}) THEN "httpError"
                       ELSE "completed"
    /\ pc' = "done"
    /\ UNCHANGED <<size, chunkSize, batchSize, present, missing, cnk, offset,
                   processing, task, attempts, status, getCalls, finalizeCalls,
                   seen402, postAfter402>>
    /\ UNCHANGED <<getres, throws>>
    /\ UNCHANGED <<batchVars, txVars>>

\* upload.ts:253: the finalize POST throws; the call rejects.
FinalizeThrows ==
    /\ pc = "finalize"
    /\ pc' = "done"
    /\ outcome' = "networkError"
    /\ UNCHANGED <<size, chunkSize, batchSize, present, missing, cnk, offset,
                   processing, task, attempts, status, finishUpload, getCalls,
                   finalizeCalls, seen402, postAfter402>>
    /\ UNCHANGED <<getres, throws>>
    /\ UNCHANGED <<batchVars, txVars>>

ChunkNext ==
    \/ Call
    \/ GetResponse
    \/ GetThrows
    \/ LoopIter
    \/ \E k \in ChunkIds : ChunkResponse(k)
    \/ \E k \in ChunkIds : ChunkThrows(k)
    \/ \E k \in ChunkIds : ChunkRetry(k)
    \/ Finalize
    \/ FinalizeResponse
    \/ FinalizeThrows

\* =========================================================== concurrentUploader
Items == 0..(MaxItems - 1)

\* concurrency arguments: negative, zero (both fall back to PoolDefault) and
\* 1..MaxConcurrency.
ConcurrencyInputs == (-1)..MaxConcurrency

\* A pool one slot wider than asked for.
Width_OneMore == IF concurrency >= 1 THEN concurrency + 1 ELSE PoolDefault

\* upload.ts:90: withConcurrency(concurrency >= 1 ? concurrency : 5).
Width == IF concurrency >= 1 THEN concurrency ELSE PoolDefault

\* upload.ts:102: i % concurrency == 0 in JavaScript, for i >= 0: NaN when
\* concurrency is 0, else the remainder by its magnitude.
LogDue(i) ==
    /\ concurrency # 0
    /\ i % (IF concurrency < 0 THEN -concurrency ELSE concurrency) = 0

\* upload.ts:97-120: the value the process callback hands to the pool. The
\* callback awaits retry(...) and returns nothing.
ProcessReturn(i) == [defined |-> FALSE]

\* An error handler that never rethrows.
HandlerThrows_Never(kind) == FALSE

\* An error handler that rethrows every error.
HandlerThrows_Always(kind) == TRUE

\* upload.ts:91-96: the error handler rethrows the insufficient-funds error,
\* which rejects the pool; any other error is only collected.
HandlerThrows(kind) == kind = "funds"

\* A retry that allows one attempt more.
RetriesLeft_More(i) == calls[i] <= ItemRetries + 1

\* upload.ts:117: retry has timeouts left after the attempt that just failed.
RetriesLeft(i) == calls[i] <= ItemRetries

BatchQuiet ==
    /\ data = 0
    /\ concurrency = 1
    /\ resultProcessor = FALSE
    /\ logFunction = FALSE
    /\ errors = <<>>
    /\ results = <<>>
    /\ nextItem = 0
    /\ poolTask = [i \in Items |-> "idle"]
    /\ retryOp = [i \in Items |-> "idle"]
    /\ calls = [i \in Items |-> 0]
    /\ batchOutcome = "off"
    /\ funds = [i \in Items |-> FALSE]
    /\ failed = [i \in Items |-> FALSE]
    /\ uploaded = [i \in Items |-> FALSE]
    /\ logCalls = 0

BatchInit ==
    /\ data \in 0..MaxItems
    /\ concurrency \in ConcurrencyInputs
    /\ resultProcessor \in BOOLEAN
    /\ logFunction \in BOOLEAN
    /\ errors = <<>>
    /\ results = <<>>
    /\ nextItem = 0
    /\ poolTask = [i \in Items |-> "idle"]
    /\ retryOp = [i \in Items |-> "idle"]
    /\ calls = [i \in Items |-> 0]
    /\ batchOutcome = "idle"
    /\ funds = [i \in Items |-> FALSE]
    /\ failed = [i \in Items |-> FALSE]
    /\ uploaded = [i \in Items |-> FALSE]
    /\ logCalls = 0

Min(a, b) == IF a < b THEN a ELSE b

\* upload.ts:86-97: the call; the pool dispatches items in input order until
\* its width is reached, each dispatch starting the first processItem call.
\* With no items the pool is drained at once.
StartBatch ==
    /\ batchOutcome = "idle"
    /\ LET n == Min(Width, data)
       IN /\ nextItem' = n
          /\ poolTask' = [i \in Items |-> IF i < n THEN "active" ELSE "idle"]
          /\ retryOp' = [i \in Items |-> IF i < n THEN "running" ELSE "idle"]
          /\ calls' = [i \in Items |-> IF i < n THEN 1 ELSE 0]
          /\ batchOutcome' = IF data = 0 THEN "resolved" ELSE "pending"
    /\ UNCHANGED <<data, concurrency, resultProcessor, logFunction, errors,
                   results, funds, failed, uploaded, logCalls>>
    /\ UNCHANGED <<chunkVars, txVars>>

\* The pool after the task of item i settled (how: "fulfilled" or "rejected",
\* kind: the error's kind) while item i's retry operation becomes op: the
\* result or the error is collected, a rethrown error rejects the pool, else
\* the freed slot takes the next item, and the drained pool resolves.
PoolSettles(i, how, kind, op) ==
    LET stops == how = "rejected" /\ HandlerThrows(kind)
        more == ~stops /\ batchOutcome = "pending" /\ nextItem < data
        idle == \A j \in Items \ {i} : poolTask[j] # "active"
    IN /\ poolTask' = [j \in Items |->
                         IF j = i THEN how
                         ELSE IF more /\ j = nextItem THEN "active"
                         ELSE poolTask[j]]
       /\ retryOp' = [j \in Items |->
                         IF j = i THEN op
                         ELSE IF more /\ j = nextItem THEN "running"
                         ELSE retryOp[j]]
       /\ calls' = [j \in Items |->
                         IF more /\ j = nextItem THEN 1 ELSE calls[j]]
       /\ nextItem' = IF more THEN nextItem + 1 ELSE nextItem
       /\ errors' = IF how = "rejected"
                      THEN Append(errors, [item |-> i, kind |-> kind])
                      ELSE errors
       /\ results' = IF how = "fulfilled"
                      THEN Append(results, ProcessReturn(i))
                      ELSE results
       /\ batchOutcome' = IF batchOutcome # "pending" THEN batchOutcome
                          ELSE IF stops THEN "rejected"
                          ELSE IF ~more /\ idle THEN "resolved"
                          ELSE "pending"

\* Item i's retry operation becomes op and its task stays as it is.
OpOnly(i, op) ==
    /\ retryOp' = [retryOp EXCEPT ![i] = op]
    /\ UNCHANGED <<poolTask, calls, nextItem, errors, results, batchOutcome>>

\* upload.ts:110-115 and async-retry: an attempt of item i ends with a thrown
\* error. The insufficient-funds error is handed to bail, which rejects the
\* retry promise; then every error is rethrown, and retry schedules the next
\* attempt while it has timeouts left, else rejects its promise.
AttemptThrows(i, kind) ==
    LET op == IF RetriesLeft(i) THEN "backoff" ELSE "stopped"
    IN IF poolTask[i] = "active" /\ (kind = "funds" \/ op = "stopped")
         THEN PoolSettles(i, "rejected", kind, op)
         ELSE OpOnly(i, op)

\* upload.ts:101-109 and 116: an attempt of item i returns its value, which
\* resolves the retry promise if it is still pending.
AttemptReturns(i) ==
    IF poolTask[i] = "active"
      THEN PoolSettles(i, "fulfilled", "none", "stopped")
      ELSE OpOnly(i, "stopped")

\* upload.ts:101-109: processItem returns a response for item i; the progress
\* callback is called when due (a TypeError when it was not supplied), then
\* the result processor, then the attempt returns.
ItemReturns(i) ==
    /\ retryOp[i] = "running"
    /\ uploaded' = [uploaded EXCEPT ![i] = TRUE]
    /\ IF LogDue(i) /\ ~logFunction
         THEN /\ AttemptThrows(i, "other")
              /\ UNCHANGED logCalls
         ELSE /\ AttemptReturns(i)
              /\ logCalls' = IF LogDue(i) THEN logCalls + 1 ELSE logCalls
    /\ UNCHANGED <<data, concurrency, resultProcessor, logFunction, funds,
                   failed>>
    /\ UNCHANGED <<chunkVars, txVars>>

\* upload.ts:101 and 110-115: processItem throws for item i, either the
\* insufficient-funds error or another one.
ItemThrows(i) ==
    /\ retryOp[i] = "running"
    /\ \E kind \in {"funds", "other"} :
         /\ AttemptThrows(i, kind)
         /\ funds' = [funds EXCEPT ![i] = @ \/ kind = "funds"]
    /\ failed' = [failed EXCEPT ![i] = TRUE]
    /\ UNCHANGED <<data, concurrency, resultProcessor, logFunction, uploaded,
                   logCalls>>
    /\ UNCHANGED <<chunkVars, txVars>>

\* async-retry: the backoff timer of item i fires and processItem is called
\* again.
ItemRetry(i) ==
    /\ retryOp[i] = "backoff"
    /\ retryOp' = [retryOp EXCEPT ![i] = "running"]
    /\ calls' = [calls EXCEPT ![i] = @ + 1]
    /\ UNCHANGED <<data, concurrency, resultProcessor, logFunction, errors,
                   results, nextItem, poolTask, batchOutcome, funds, failed,
                   uploaded, logCalls>>
    /\ UNCHANGED <<chunkVars, txVars>>

BatchNext ==
    \/ StartBatch
    \/ \E i \in Items : ItemReturns(i)
    \/ \E i \in Items : ItemThrows(i)
    \/ \E i \in Items : ItemRetry(i)

\* ======================================================= transactionUploader
\* Lengths at the threshold and just above it, and a one-byte item.
LengthInputs == {1, ChunkThreshold, ChunkThreshold + 1}

\* Statuses the POST to /tx answers with (upload.ts:69-79).
DirectStatuses == {200, 201, 402, 500}

\* transactionUploader when no single upload is modelled.
TxQuiet ==
    /\ length = 1
    /\ forceUseChunking = FALSE
    /\ txpc = "off"
    /\ res = 0
    /\ txOutcome = "pending"
    /\ directPosts = 0

TxInit ==
    /\ length \in LengthInputs
    /\ forceUseChunking \in BOOLEAN
    /\ txpc = "call"
    /\ res = 0
    /\ txOutcome = "pending"
    /\ directPosts = 0

\* A decision that sends an item of exactly the threshold length in chunks.
UseChunks_AtThreshold == forceUseChunking \/ length >= ChunkThreshold

\* upload.ts:59: this.forceUseChunking || length > 50_000_000.
UseChunks == forceUseChunking \/ length > ChunkThreshold

\* A switch without the case for status 201: the response is returned as it
\* came, without the item id.
Switch_NoId(st) ==
    IF st = 402 THEN "funds"
    ELSE IF st >= 400 THEN "uploadError"
    ELSE "returned"

\* upload.ts:69-80: what the switch on res.status makes of a response.
Switch(st) ==
    IF st = 201 THEN "created"
    ELSE IF st = 402 THEN "funds"
    ELSE IF st >= 400 THEN "uploadError"
    ELSE "returned"

\* upload.ts:56-68: the call; either chunkedTransactionUploader is called with
\* its default chunkSize and batchSize, or the whole payload is POSTed.
TxCall ==
    /\ txpc = "call"
    /\ IF UseChunks
         THEN /\ txpc' = "chunked"
              /\ pc' = "call"
              /\ size' = length
              /\ chunkSize' = DefaultChunkSize
              /\ batchSize' = DefaultBatchSize
              /\ UNCHANGED directPosts
         ELSE /\ txpc' = "direct"
              /\ directPosts' = directPosts + 1
              /\ UNCHANGED <<pc, size, chunkSize, batchSize>>
    /\ UNCHANGED <<length, forceUseChunking, res, txOutcome>>
    /\ UNCHANGED <<present, missing, cnk, offset, processing, task, attempts,
                   status, finishUpload, outcome, getCalls, finalizeCalls,
                   seen402, postAfter402, getres, throws>>
    /\ UNCHANGED batchVars

\* upload.ts:60 and 69-80: chunkedTransactionUploader has settled; what it
\* threw is thrown on, what it returned goes through the switch.
TxChunkedSettles ==
    /\ txpc = "chunked"
    /\ pc = "done"
    /\ txpc' = "done"
    /\ IF outcome \in {"completed", "alreadyComplete"}
         THEN LET st == IF outcome = "completed" THEN finishUpload ELSE getres
              IN /\ res' = st
                 /\ txOutcome' = Switch(st)
         ELSE /\ txOutcome' = IF outcome = "insufficientFunds" THEN "funds"
                              ELSE outcome
              /\ UNCHANGED res
    /\ UNCHANGED <<length, forceUseChunking, directPosts>>
    /\ UNCHANGED <<chunkVars, batchVars>>

\* upload.ts:63-80: the POST to /tx answers with a status.
TxDirectResponse ==
    /\ txpc = "direct"
    /\ txpc' = "done"
    /\ \E st \in DirectStatuses :
         /\ res' = st
         /\ txOutcome' = Switch(st)
    /\ UNCHANGED <<length, forceUseChunking, directPosts>>
    /\ UNCHANGED <<chunkVars, batchVars>>

\* upload.ts:63: the POST to /tx throws.
TxDirectThrows ==
    /\ txpc = "direct"
    /\ txpc' = "done"
    /\ txOutcome' = "networkError"
    /\ UNCHANGED <<length, forceUseChunking, res, directPosts>>
    /\ UNCHANGED <<chunkVars, batchVars>>

TxNext ==
    \/ TxCall
    \/ TxChunkedSettles
    \/ TxDirectResponse
    \/ TxDirectThrows
    \/ ChunkNext

\* ========================================================== specifications
InitChunk == ChunkInit /\ BatchQuiet /\ TxQuiet

ChunkSpec == InitChunk /\ [][ChunkNext]_vars

\* Responses arrive and timers fire: every enabled step is eventually taken.
ChunkLive == ChunkSpec /\ WF_vars(ChunkNext)

InitBatch == BatchInit /\ ChunkQuiet /\ TxQuiet

BatchSpec == InitBatch /\ [][BatchNext]_vars

InitTx == TxInit /\ ChunkQuiet /\ BatchQuiet

TxSpec == InitTx /\ [][TxNext]_vars

\* ================================================================== claims
\* Chunk uploads started and not settled: a POST in flight, a backoff timer
\* pending, or a retry that gave up without settling the chunk's promise.
InFlight ==
    Cardinality({k \in ChunkIds : task[k] \in {"posting", "backoff", "exhausted"}})

\* C1: during a run of chunkedTransactionUploader with batchSize >= 1, the
\* number of chunk uploads started and not yet settled never exceeds
\* batchSize.
C1_InFlightAtMostBatchSize ==
    (pc # "off" /\ batchSize >= 1) => InFlight <= batchSize

\* C1 witness: the window is full of unsettled uploads while the loop holds a
\* further missing chunk back.
C1_Witness ==
    /\ pc = "loop"
    /\ InFlight = batchSize
    /\ cnk < Len(ChunkLengths(size, chunkSize))
    /\ offset \in missing

\* C2: once a chunk POST was answered 402, that chunk's upload is over and is
\* not POSTed again, no chunk POST for another offset is issued, no finalize
\* call is made, and the operation ends with the insufficient-funds error.
C2_Chunk402Aborts ==
    seen402 =>
        /\ \A k \in ChunkIds : status[k] = 402 => task[k] = "resolved"
        /\ ~postAfter402
        /\ finalizeCalls = 0
        /\ pc = "done" => outcome = "insufficientFunds"

\* C3: when the retries of a chunk upload are exhausted, the chunked upload
\* eventually ends with a failure, and never issues the finalize call.
C3_ExhaustedChunkFailsItem ==
    /\ []((\E k \in ChunkIds : task[k] = "exhausted") => finalizeCalls = 0)
    /\ (\E k \in ChunkIds : task[k] = "exhausted")
          ~> (pc = "done" /\ outcome \in {"httpError", "networkError",
                                           "insufficientFunds"})

\* C4: the POST for one chunk offset is attempted at most 3 times.
C4_ChunkPostAtMost3 ==
    \A k \in ChunkIds : attempts[k] <= 3

\* C5: after processItem failed with the insufficient-funds error for an
\* item, processItem is never invoked for that item again.
C5_NoAttemptAfterBail ==
    [][\A i \in Items : funds[i] => calls'[i] = calls[i]]_vars

AnyFunds == \E i \in Items : funds[i]

\* C6: once an item's upload failed with the insufficient-funds error, the
\* batch call is rejected (not resolved) and no further item is dispatched.
C6_FundsAbortsBatch ==
    /\ [](AnyFunds => batchOutcome = "rejected")
    /\ [][AnyFunds => nextItem' = nextItem]_vars

\* C6 witness: the batch was rejected for insufficient funds with an item
\* still waiting to be dispatched.
C6_Witness ==
    /\ AnyFunds
    /\ batchOutcome = "rejected"
    /\ nextItem < data

\* C7: when concurrentUploader resolves, every item whose task succeeded has
\* exactly one entry in results, and that entry carries the item.
C7_ResultsCarryItems ==
    batchOutcome = "resolved" =>
        \A i \in Items : poolTask[i] = "fulfilled" =>
            Cardinality({n \in DOMAIN results :
                            results[n].defined /\ results[n].item = i}) = 1

\* C8 as stated: an item whose attempts keep failing with errors other than
\* insufficient funds has processItem invoked at most 3 times.
C8_AtMost3Calls ==
    \A i \in Items : (~uploaded[i] /\ ~funds[i]) => calls[i] <= 3

\* C8: processItem is invoked at most 4 times per item, the first attempt and
\* the 3 retries, whatever errors its attempts fail with.
C8_AtMost4Calls ==
    \A i \in Items : calls[i] <= 4

\* C8 witness: an item that never hit insufficient funds, all of whose
\* attempts failed, was given up after its fourth call.
C8_Witness ==
    \E i \in Items :
        /\ calls[i] = 4
        /\ ~funds[i]
        /\ failed[i] /\ ~uploaded[i]
        /\ retryOp[i] = "stopped"
        /\ poolTask[i] = "rejected"

ErrorsOf(i) == {n \in DOMAIN errors : errors[n].item = i}

Active == {i \in Items : poolTask[i] = "active"}

\* C9: an item that failed every attempt with errors other than insufficient
\* funds has exactly one entry in errors (no item has more); without an
\* insufficient-funds failure the batch is never rejected, the items still
\* waiting are held back only by a full pool, and once every item has settled
\* the call has resolved.
C9_OtherErrorsAreCollected ==
    /\ \A i \in Items :
         /\ Cardinality(ErrorsOf(i)) <= 1
         /\ (poolTask[i] = "rejected" /\ ~funds[i]) =>
               Cardinality(ErrorsOf(i)) = 1
    /\ ~AnyFunds =>
         /\ batchOutcome # "rejected"
         /\ (batchOutcome = "pending" /\ nextItem < data) =>
               Cardinality(Active) = Width
         /\ (batchOutcome # "idle" /\ nextItem = data /\ Active = {}) =>
               batchOutcome = "resolved"
         /\ batchOutcome = "resolved" =>
               /\ nextItem = data
               /\ Len(errors) + Len(results) = data

\* C9 witness: with a pool of width 1 the first item failed every attempt with
\* another error, the second item was uploaded after it, and the call
\* resolved.
C9_Witness ==
    /\ concurrency = 1
    /\ data = 2
    /\ batchOutcome = "resolved"
    /\ calls[0] = 4 /\ ~uploaded[0] /\ ~funds[0]
    /\ poolTask[0] = "rejected"
    /\ poolTask[1] = "fulfilled"
    /\ Len(errors) = 1

\* C10: with the progress callback omitted and no processItem call failing,
\* processItem is invoked at most once per item and the call resolves with an
\* empty errors list.
C10_NoLogFunctionIsFine ==
    (~logFunction /\ \A i \in Items : ~failed[i]) =>
        /\ \A i \in Items : calls[i] <= 1
        /\ batchOutcome = "resolved" => errors = <<>>

\* Items whose upload is under way: processItem is running or its retry timer
\* is pending.
Busy == {i \in Items : retryOp[i] \in {"running", "backoff"}}

NumChunks == Len(ChunkLengths(size, chunkSize))

\* A POST was issued for chunk k.
Posted(k) == attempts[k] > 0

\* The server reported every chunk offset of the item as present.
AllPresent == \A k \in 0..(NumChunks - 1) : k * chunkSize \in present

\* C12: after a presence response 200, a chunk POST is issued only for chunks
\* whose offset is not in the presence set, and every such chunk the loop has
\* passed was POSTed; with every chunk offset present no POST is issued and
\* the finalize call is still made.
C12_PostIffMissing ==
    getres = 200 =>
        /\ \A k \in ChunkIds :
             Posted(k) => (k < NumChunks /\ k * chunkSize \notin present)
        /\ \A k \in 0..(cnk - 1) : k * chunkSize \notin present => Posted(k)
        /\ AllPresent =>
             /\ \A k \in ChunkIds : ~Posted(k)
             /\ (pc = "loop" /\ cnk = NumChunks) => ENABLED Finalize
             /\ pc = "done" => finalizeCalls = 1

\* C12 witness: both chunks of a two-chunk item were reported present and the
\* finalize call went out without any chunk POST.
C12_Witness ==
    /\ getres = 200
    /\ NumChunks = 2
    /\ AllPresent
    /\ finalizeCalls = 1
    /\ \A k \in ChunkIds : ~Posted(k)

\* C13: after a presence response 201 the call is over with success, and no
\* chunk POST and no finalize call were issued.
C13_AlreadyCompleteReturnsAtOnce ==
    getres = 201 =>
        /\ pc = "done"
        /\ outcome = "alreadyComplete"
        /\ getCalls = 1
        /\ finalizeCalls = 0
        /\ \A k \in ChunkIds : ~Posted(k)

\* C13 witness: the presence query answered 201.
C13_Witness ==
    /\ getres = 201
    /\ outcome = "alreadyComplete"

\* C14: a chunk whose POST threw at most twice is not given up; a chunk
\* resolved after n throws was POSTed n + 1 times (3 times after two throws);
\* and with the finalize call answered 201 the upload succeeds.
C14_ThirdAttemptSucceeds ==
    /\ \A k \in ChunkIds :
         /\ throws[k] <= 2 => task[k] # "exhausted"
         /\ task[k] = "resolved" => attempts[k] = throws[k] + 1
    /\ finishUpload = 201 => outcome = "completed"

\* C14 witness: a chunk's POST threw twice, its third POST was accepted, and
\* the upload succeeded.
C14_Witness ==
    \E k \in ChunkIds :
        /\ throws[k] = 2
        /\ attempts[k] = 3
        /\ status[k] = 200
        /\ finishUpload = 201
        /\ outcome = "completed"

C17_FinalizeOnlyAfterAllAccepted ==
    finalizeCalls > 0 =>
        /\ InFlight = 0
        /\ \A k \in 0..(NumChunks - 1) :
             \/ k * chunkSize \in present
             \/ (task[k] = "resolved" /\ status[k] = 200)

\* C19 as stated: the chunked upload fails with a transport error of the
\* presence query or of the finalize call only after that request was
\* attempted 3 times.
C19_TransportErrorIsRetried ==
    outcome = "networkError" => (getCalls >= 3 \/ finalizeCalls >= 3)

\* C19: the presence query and the finalize call are each sent at most once;
\* a transport error of either ends the chunked upload with that error.
C19_TransportErrorFailsAtOnce ==
    /\ getCalls <= 1
    /\ finalizeCalls <= 1
    /\ outcome = "networkError" =>
         /\ pc = "done"
         /\ getCalls = 1
         /\ finishUpload = 0

\* C19 witness: the finalize call threw and the upload ended with the
\* transport error after one presence query and one finalize call.
C19_Witness ==
    /\ outcome = "networkError"
    /\ getCalls = 1
    /\ finalizeCalls = 1

\* ---------------------------------------------------------------------- C16
\* Requests of the chunk protocol issued so far: presence queries, chunk POSTs
\* and finalize POSTs.
ChunkRequests ==
    getCalls + finalizeCalls + Cardinality({k \in ChunkIds : attempts[k] > 0})

\* C16: once transactionUploader has decided, chunkedTransactionUploader has
\* been called if and only if the force-chunking flag is set or the length is
\* strictly greater than 50,000,000; on the chunked path no direct POST is
\* made, and otherwise exactly one direct POST is made and no request of the
\* chunk protocol is issued.
C16_ChunkedIffForcedOrLong ==
    txpc \in {"direct", "chunked", "done"} =>
        /\ (pc # "off") <=> (forceUseChunking \/ length > 50000000)
        /\ (pc # "off") <=> (directPosts = 0)
        /\ (pc = "off") => (directPosts = 1 /\ ChunkRequests = 0)

\* An item of exactly 50,000,000 bytes with the flag unset has been uploaded
\* with one direct POST.
C16_Witness ==
    /\ length = 50000000
    /\ ~forceUseChunking
    /\ txpc = "done"
    /\ directPosts = 1
    /\ ChunkRequests = 0

\* ---------------------------------------------------------------------- C18
\* The error processItem throws when transactionUploader settled with o, as
\* handleError sees it: "none" when it returned a response.
Thrown(o) ==
    IF o = "funds" THEN "funds"
    ELSE IF o \in {"created", "returned"} THEN "none"
    ELSE "other"

\* C18: when a chunked upload has settled after its finalize call was
\* answered, status 402 gives the insufficient-funds error, status 201 gives
\* success with the item id, any other status that is not a success gives a
\* failure other than the insufficient-funds error, and of these only the 402
\* case makes the batch's error handler abort the batch.
C18_FinalizeDecidesOutcome ==
    (txpc = "done" /\ finishUpload # 0) =>
        /\ (finishUpload = 402) => (outcome = "insufficientFunds" /\ txOutcome = "funds")
        /\ (finishUpload = 201) => (outcome = "completed" /\ txOutcome = "created")
        /\ (finishUpload \notin {200, 201, 402}) =>
               /\ outcome = "httpError"
               /\ Thrown(txOutcome) = "other"
        /\ HandlerThrows(Thrown(txOutcome)) <=> (finishUpload = 402)

\* A chunked upload whose finalize call was answered with an error status
\* other than 402 has failed with an error that does not abort a batch.
C18_Witness ==
    /\ txpc = "done"
    /\ finishUpload = 500
    /\ txOutcome = "httpError"
    /\ ~HandlerThrows(Thrown(txOutcome))

\* ---------------------------------------------------------------------- C20
\* C20: once an item's pool task has settled, none of the item's uploads is
\* running and none is scheduled: the retry operation of a settled item has
\* stopped.
C20_NoRequestAfterTaskSettled ==
    \A i \in Items :
        poolTask[i] \in {"fulfilled", "rejected"} =>
            retryOp[i] \notin {"running", "backoff"}

====
